---- MODULE Spec2Model ----
(***************************************************************************)
(* Model of pyop2/op2.py: the OP2 data model (Access, Set, Map, Dat, Mat,   *)
(* Const, Global), the binding / indexing operations, the diagnostic       *)
(* renderings and the as_tuple helper.                                     *)
(*                                                                         *)
(* Python objects live in a heap (a sequence of records, the record's      *)
(* fields are the instance's attribute dictionary plus its class "cls").   *)
(* An object's identity is its position in the heap.  Python values are     *)
(* tagged records.  Strings are sequences of fragments, so that "the text   *)
(* contains ..." is checkable.                                             *)
(***************************************************************************)
EXTENDS Integers, Sequences, FiniteSets, TLC

VARIABLES heap, last

vars == <<heap, last>>

(***************************************************************************)
(* Bounds                                                                  *)
(***************************************************************************)
\* number of objects the operations may allocate on top of the declarations
MaxNew == 1
\* number of indexed copies a run of Map operations alone may allocate
MaxChain == 2
\* arity of the map m1 (the indices tried range over -1 .. MaxDim)
MaxDim == 2
\* longest iterable / largest length handed to as_tuple
MaxLen == 2

(***************************************************************************)
(* Python values                                                           *)
(***************************************************************************)
None == [t |-> "None"]

PyInt(n) == [t |-> "int", v |-> n]

\* a float with a fractional part of .0 or .5; h is twice its value
PyFloat(h) == [t |-> "float", h |-> h]

\* a string, as the sequence of its fragments
PyStr(frags) == [t |-> "str", frags |-> frags]

\* a reference to the heap object at position id
Ref(id) == [t |-> "ref", id |-> id]

PyTuple(items) == [t |-> "tuple", items |-> items]

PyList(items) == [t |-> "list", items |-> items]

\* a class object used as a value (the type argument of as_tuple)
PyType(name) == [t |-> "type", name |-> name]

IsRef(v) == v.t = "ref"

IsSeqVal(v) == v.t \in {"tuple", "list"}

\* bool(v): None, zero and empty containers are false; instances of the
\* classes of this module define neither __len__ nor __nonzero__: true
Truthy(v) ==
    CASE v.t = "None"  -> FALSE
      [] v.t = "int"   -> v.v # 0
      [] v.t = "float" -> v.h # 0
      [] v.t = "str"   -> v.frags # <<>>
      [] v.t \in {"tuple", "list"} -> v.items # <<>>
      [] OTHER -> TRUE

\* twice the numeric value of an int or a float
Twice(v) == IF v.t = "int" THEN 2 * v.v ELSE v.h

IsNumber(v) == v.t \in {"int", "float"}

\* the class name of a value, as isinstance sees it
ClassOf(h, v) == IF IsRef(v) THEN h[v.id].cls ELSE v.t

isinstance(h, v, cls) == ClassOf(h, v) = cls

\* getattr: the attribute dictionary of an instance is the record's domain
HasAttr(h, v, a) == IsRef(v) /\ a \in DOMAIN h[v.id]

GetAttr(h, v, a) == h[v.id][a]

\* the record o with attribute a set to val
SetField(o, a, val) == [x \in (DOMAIN o) \cup {a} |-> IF x = a THEN val ELSE o[x]]

\* obj.a = val
SetAttr(h, ref, a, val) == [h EXCEPT ![ref.id] = SetField(@, a, val)]

\* arg = self instead of arg = copy(self): the receiver itself is bound
copy_alias(h, self) == [heap |-> h, ref |-> self]

\* copy(self): a new object with the same attribute dictionary
copy(h, self) == [heap |-> Append(h, h[self.id]), ref |-> Ref(Len(h) + 1)]

(***************************************************************************)
(* Outcomes of an operation                                                *)
(***************************************************************************)
Ok(h, ret) == [exc |-> "", msg |-> <<>>, ret |-> ret, heap |-> h]

Raise(h, exc, msg) == [exc |-> exc, msg |-> msg, ret |-> None, heap |-> h]

(***************************************************************************)
(* Diagnostic renderings: str(v) and repr(v), "%s" and "%r"                *)
(***************************************************************************)
\* "%s" % s for a str s, "%s" % n for an int n
StrOfStr(s) == s.frags

StrOfInt(n) == <<ToString(n.v)>>

\* the texts of a sequence, separated by sep
Join(texts, sep) ==
    LET RECURSIVE From(_)
        From(k) == IF k > Len(texts) THEN <<>>
                   ELSE IF k = Len(texts) THEN texts[k]
                   ELSE texts[k] \o <<sep>> \o From(k + 1)
    IN  From(1)

RECURSIVE str(_, _), repr(_, _)

\* str of a float whose fraction is .0 or .5
FloatStr(x) ==
    LET a == IF x < 0 THEN -x ELSE x
        digits == ToString(a \div 2) \o (IF a % 2 = 0 THEN ".0" ELSE ".5")
    IN  IF x < 0 THEN "-" \o digits ELSE digits

\* the reprs of the items of a sequence, separated by ", "
JoinRepr(h, items) == Join([k \in 1..Len(items) |-> repr(h, items[k])], ", ")

\* _mode is one of the strings of Access._modes
Access_str(h, self) == <<"OP2 Access: ">> \o StrOfStr(GetAttr(h, self, "_mode"))

Access_repr(h, self) ==
    <<"Access('">> \o StrOfStr(GetAttr(h, self, "_mode")) \o <<"')">>

\* _name is a str and _size an int, by the assertions of Set.__init__
Set_str(h, self) ==
    <<"OP2 Set: ">> \o StrOfStr(GetAttr(h, self, "_name"))
    \o <<" with size ">> \o StrOfInt(GetAttr(h, self, "_size"))

Set_repr(h, self) ==
    <<"Set(">> \o StrOfInt(GetAttr(h, self, "_size")) \o <<", '">>
    \o StrOfStr(GetAttr(h, self, "_name")) \o <<"')">>

Dat_str(h, self) ==
    LET map == GetAttr(h, self, "_map")
        access == GetAttr(h, self, "_access")
        call == IF Truthy(map) /\ Truthy(access)
                THEN <<" associated with (">> \o str(h, map)
                     \o <<") in mode ">> \o str(h, access)
                ELSE <<>>
    IN  <<"OP2 Dat: ">> \o str(h, GetAttr(h, self, "_name"))
        \o <<" on (">> \o str(h, GetAttr(h, self, "_set"))
        \o <<") with dim ">> \o str(h, GetAttr(h, self, "_dim"))
        \o <<" and datatype ">> \o str(h, GetAttr(h, self, "_datatype"))
        \o call

Dat_repr(h, self) ==
    LET map == GetAttr(h, self, "_map")
        access == GetAttr(h, self, "_access")
        call == IF Truthy(map) /\ Truthy(access)
                THEN <<"(">> \o repr(h, map) \o <<", ">> \o repr(h, access)
                     \o <<")">>
                ELSE <<>>
    IN  <<"Dat(">> \o repr(h, GetAttr(h, self, "_set"))
        \o <<", ">> \o str(h, GetAttr(h, self, "_dim"))
        \o <<", '">> \o str(h, GetAttr(h, self, "_datatype"))
        \o <<"', None, '">> \o str(h, GetAttr(h, self, "_name"))
        \o <<"')">> \o call

\* self._maps[0], self._maps[1] raise IndexError on a shorter tuple
Mat_str_raises(h, self) ==
    LET maps == GetAttr(h, self, "_maps")
        access == GetAttr(h, self, "_access")
    IN  Truthy(maps) /\ Truthy(access) /\ Len(maps.items) < 2

Mat_str(h, self) ==
    LET maps == GetAttr(h, self, "_maps")
        access == GetAttr(h, self, "_access")
        sets == GetAttr(h, self, "_sets")
        call == IF Truthy(maps) /\ Truthy(access)
                THEN <<" associated with (">> \o str(h, maps.items[1])
                     \o <<", ">> \o str(h, maps.items[2])
                     \o <<") in mode ">> \o str(h, access)
                ELSE <<>>
    IN  <<"OP2 Mat: ">> \o str(h, GetAttr(h, self, "_name"))
        \o <<", row set (">> \o str(h, sets.items[1])
        \o <<"), col set (">> \o str(h, sets.items[2])
        \o <<"), dimension ">> \o str(h, GetAttr(h, self, "_dim"))
        \o <<", datatype ">> \o str(h, GetAttr(h, self, "_datatype"))
        \o call

Mat_repr(h, self) ==
    LET maps == GetAttr(h, self, "_maps")
        access == GetAttr(h, self, "_access")
        call == IF Truthy(maps) /\ Truthy(access)
                THEN <<"(">> \o repr(h, maps) \o <<", ">> \o repr(h, access)
                     \o <<")">>
                ELSE <<>>
    IN  <<"Mat(">> \o repr(h, GetAttr(h, self, "_sets"))
        \o <<", ">> \o str(h, GetAttr(h, self, "_dim"))
        \o <<", '">> \o str(h, GetAttr(h, self, "_datatype"))
        \o <<"', '">> \o str(h, GetAttr(h, self, "_name"))
        \o <<"')">> \o call

Const_str(h, self) ==
    <<"OP2 Const: ">> \o str(h, GetAttr(h, self, "_name"))
    \o <<" of dim ">> \o str(h, GetAttr(h, self, "_dim"))
    \o <<" and type ">> \o str(h, GetAttr(h, self, "_datatype"))
    \o <<", value ">> \o str(h, GetAttr(h, self, "_value"))

Const_repr(h, self) ==
    <<"Const(">> \o str(h, GetAttr(h, self, "_dim"))
    \o <<", '">> \o str(h, GetAttr(h, self, "_datatype"))
    \o <<"', ">> \o str(h, GetAttr(h, self, "_value"))
    \o <<", '">> \o str(h, GetAttr(h, self, "_name")) \o <<"')">>

Global_str(h, self) ==
    LET access == GetAttr(h, self, "_access")
        call == IF Truthy(access) THEN <<" in mode ">> \o str(h, access)
                ELSE <<>>
    IN  <<"OP2 Global Argument: ">> \o str(h, GetAttr(h, self, "_name"))
        \o <<" with value ">> \o str(h, GetAttr(h, self, "_val")) \o call

Global_repr(h, self) ==
    LET access == GetAttr(h, self, "_access")
        call == IF Truthy(access) THEN <<"(">> \o repr(h, access) \o <<")">>
                ELSE <<>>
    IN  <<"Global('">> \o str(h, GetAttr(h, self, "_name"))
        \o <<"', ">> \o str(h, GetAttr(h, self, "_val")) \o <<")">> \o call

Map_str(h, self) ==
    LET index == GetAttr(h, self, "_index")
        indexed == IF Truthy(index) THEN <<" and component ">> \o str(h, index)
                   ELSE <<>>
    IN  <<"OP2 Map: ">> \o str(h, GetAttr(h, self, "_name"))
        \o <<" from (">> \o str(h, GetAttr(h, self, "_from"))
        \o <<") to (">> \o str(h, GetAttr(h, self, "_to"))
        \o <<") with dim ">> \o str(h, GetAttr(h, self, "_dim"))
        \o indexed

Map_repr(h, self) ==
    LET index == GetAttr(h, self, "_index")
        indexed == IF Truthy(index) THEN <<"(">> \o str(h, index) \o <<")">>
                   ELSE <<>>
    IN  <<"Map(">> \o repr(h, GetAttr(h, self, "_from"))
        \o <<", ">> \o repr(h, GetAttr(h, self, "_to"))
        \o <<", ">> \o str(h, GetAttr(h, self, "_dim"))
        \o <<", None, '">> \o str(h, GetAttr(h, self, "_name"))
        \o <<"')">> \o indexed

\* "%s" % v
str(h, v) ==
    CASE v.t = "None"  -> <<"None">>
      [] v.t = "int"   -> <<ToString(v.v)>>
      [] v.t = "float" -> <<FloatStr(v.h)>>
      [] v.t = "str"   -> v.frags
      [] v.t = "ref"   ->
            CASE h[v.id].cls = "Access" -> Access_str(h, v)
              [] h[v.id].cls = "Set"    -> Set_str(h, v)
              [] h[v.id].cls = "Dat"    -> Dat_str(h, v)
              [] h[v.id].cls = "Mat"    -> Mat_str(h, v)
              [] h[v.id].cls = "Const"  -> Const_str(h, v)
              [] h[v.id].cls = "Global" -> Global_str(h, v)
              [] h[v.id].cls = "Map"    -> Map_str(h, v)
      [] OTHER -> repr(h, v)

\* "%r" % v
repr(h, v) ==
    CASE v.t = "str"   -> <<"'">> \o v.frags \o <<"'">>
      [] v.t = "tuple" ->
            <<"(">> \o JoinRepr(h, v.items)
            \o (IF Len(v.items) = 1 THEN <<",)">> ELSE <<")">>)
      [] v.t = "list"  -> <<"[">> \o JoinRepr(h, v.items) \o <<"]">>
      [] v.t = "ref"   ->
            CASE h[v.id].cls = "Access" -> Access_repr(h, v)
              [] h[v.id].cls = "Set"    -> Set_repr(h, v)
              [] h[v.id].cls = "Dat"    -> Dat_repr(h, v)
              [] h[v.id].cls = "Mat"    -> Mat_repr(h, v)
              [] h[v.id].cls = "Const"  -> Const_repr(h, v)
              [] h[v.id].cls = "Global" -> Global_repr(h, v)
              [] h[v.id].cls = "Map"    -> Map_repr(h, v)
      [] OTHER -> str(h, v)

(***************************************************************************)
(* Comparisons                                                             *)
(***************************************************************************)
\* a == b: numbers by value, strings and containers by value, instances of
\* the classes of this module (none defines __eq__) by identity
PyEq(a, b) == IF IsNumber(a) /\ IsNumber(b) THEN Twice(a) = Twice(b) ELSE a = b

\* v in lst, for a list given as a sequence
In(v, lst) == \E k \in 1..Len(lst) : PyEq(v, lst[k])

\* access in self._modes, comparing the mode strings instead of the instances
AccessIn_by_mode(h, access, modes) ==
    \E k \in 1..Len(modes) :
        /\ HasAttr(h, access, "_mode")
        /\ GetAttr(h, access, "_mode") = GetAttr(h, modes[k], "_mode")

\* access in self._modes
AccessIn(h, access, modes) == In(access, modes)

\* (item,) * n
Repeat(item, n) == [k \in 1..(IF n > 0 THEN n ELSE 0) |-> item]

(***************************************************************************)
(* as_tuple                                                                *)
(***************************************************************************)
\* length or 1
LengthOr1(length) == IF Truthy(length) THEN length.v ELSE 1

\* the first half of as_tuple: the sequence t before the checks
as_tuple_t(item, length) ==
    IF item = None THEN PyList(<<>>)
    ELSE IF IsSeqVal(item) THEN PyTuple(item.items)
    ELSE PyTuple(Repeat(item, LengthOr1(length)))

\* if length: assert len(t) == length
as_tuple_length_ok(t, length) ==
    Truthy(length) => PyEq(PyInt(Len(t.items)), length)

\* if type: assert all(isinstance(i, type) for i in t)
as_tuple_type_ok(h, t, type) ==
    Truthy(type) => \A k \in 1..Len(t.items) : isinstance(h, t.items[k], type.name)

as_tuple(h, item, type, length) ==
    LET t == as_tuple_t(item, length)
    IN  IF ~as_tuple_length_ok(t, length)
        THEN Raise(h, "AssertionError",
                   <<"Tuple needs to be of length ">> \o StrOfInt(length))
        ELSE IF ~as_tuple_type_ok(h, t, type)
        THEN Raise(h, "AssertionError",
                   <<"Items need to be of ">> \o <<type.name>>)
        ELSE Ok(h, t)

(***************************************************************************)
(* Constructors                                                            *)
(***************************************************************************)
\* a new instance with the given attribute dictionary
New(h, obj) == Ok(Append(h, obj), Ref(Len(h) + 1))

Access_modes ==
    <<PyStr(<<"READ">>), PyStr(<<"WRITE">>), PyStr(<<"RW">>), PyStr(<<"INC">>)>>

Access_init(h, mode) ==
    IF ~In(mode, Access_modes)
    THEN Raise(h, "AssertionError",
               <<"Mode needs to be one of ", "[">>
               \o Join([k \in 1..Len(Access_modes) |->
                            <<"'">> \o StrOfStr(Access_modes[k]) \o <<"'">>], ", ")
               \o <<"]">>)
    ELSE New(h, [cls |-> "Access", _mode |-> mode])

\* the four module-level instances, constructed first at import
READ == Ref(1)

WRITE == Ref(2)

RW == Ref(3)

INC == Ref(4)

Set_init(h, size, name) ==
    IF ~isinstance(h, size, "int")
    THEN Raise(h, "AssertionError", <<"Size must be of type int">>)
    ELSE IF ~isinstance(h, name, "str")
    THEN Raise(h, "AssertionError", <<"Name must be of type str">>)
    ELSE New(h, [cls |-> "Set", _size |-> size, _name |-> name])

Dat_modes == <<READ, WRITE, RW, INC>>

Dat_init(h, set, dim, datatype, data, name) ==
    IF ~isinstance(h, set, "Set")
    THEN Raise(h, "AssertionError", <<"set must be of type Set">>)
    ELSE IF ~isinstance(h, name, "str")
    THEN Raise(h, "AssertionError", <<"Name must be of type str">>)
    ELSE New(h, [cls |-> "Dat", _set |-> set, _dim |-> dim,
                 _datatype |-> datatype, _data |-> data, _name |-> name,
                 _map |-> None, _access |-> None])

Mat_modes == <<READ, WRITE, RW, INC>>

Mat_init(h, sets, dim, datatype, name) ==
    IF ~isinstance(h, name, "str")
    THEN Raise(h, "AssertionError", <<"Name must be of type str">>)
    ELSE LET t == as_tuple(h, sets, PyType("Set"), PyInt(2))
         IN  IF t.exc # "" THEN t
             ELSE New(h, [cls |-> "Mat", _sets |-> t.ret, _dim |-> dim,
                          _datatype |-> datatype, _name |-> name,
                          _maps |-> None, _access |-> None])

Const_modes == <<READ>>

Const_init(h, dim, datatype, value, name) ==
    IF ~isinstance(h, name, "str")
    THEN Raise(h, "AssertionError", <<"Name must be of type str">>)
    ELSE New(h, [cls |-> "Const", _dim |-> dim, _datatype |-> datatype,
                 _value |-> value, _name |-> name, _access |-> READ])

\* Global._modes as a copy of Dat._modes
Global_modes_all == <<READ, WRITE, RW, INC>>

Global_modes == <<READ, INC>>

Global_init(h, name, val) ==
    IF ~isinstance(h, name, "str")
    THEN Raise(h, "AssertionError", <<"Name must be of type str">>)
    ELSE New(h, [cls |-> "Global", _val |-> val, _name |-> name,
                 _access |-> None])

Map_init(h, frm, to, dim, values, name) ==
    IF ~isinstance(h, frm, "Set")
    THEN Raise(h, "AssertionError", <<"From set must be of type Set">>)
    ELSE IF ~isinstance(h, to, "Set")
    THEN Raise(h, "AssertionError", <<"To set must be of type Set">>)
    ELSE IF ~isinstance(h, name, "str")
    THEN Raise(h, "AssertionError", <<"Name must be of type str">>)
    ELSE New(h, [cls |-> "Map", _from |-> frm, _to |-> to, _dim |-> dim,
                 _values |-> values, _name |-> name, _index |-> None])

(***************************************************************************)
(* Binding and indexing                                                    *)
(***************************************************************************)
\* evaluating v.a where v has no attribute a
NoAttribute(h, v, a) ==
    Raise(h, "AttributeError",
          <<"'", ClassOf(h, v), "' object has no attribute '", a, "'">>)

\* "Acess descriptor must be one of %s" % self._modes
AccessMessage(h, modes) ==
    <<"Acess descriptor must be one of ", "[">>
    \o Join([k \in 1..Len(modes) |-> Access_repr(h, modes[k])], ", ")
    \o <<"]">>

\* the failed set comparison of Dat.__call__ / Mat.__call__: the message
\* reads map._name, map._set._name and set._name
SetMismatch(h, prefix, map, set) ==
    IF ~HasAttr(h, map, "_name") THEN NoAttribute(h, map, "_name")
    ELSE IF ~HasAttr(h, GetAttr(h, map, "_set"), "_name")
    THEN NoAttribute(h, GetAttr(h, map, "_set"), "_name")
    ELSE Raise(h, "AssertionError",
               prefix \o StrOfStr(GetAttr(h, map, "_name"))
               \o <<" (is ">>
               \o StrOfStr(GetAttr(h, GetAttr(h, map, "_set"), "_name"))
               \o <<", should be ">> \o StrOfStr(GetAttr(h, set, "_name"))
               \o <<")">>)

Dat_call(h, self, map, access) ==
    IF ~AccessIn(h, access, Dat_modes)
    THEN Raise(h, "AssertionError", AccessMessage(h, Dat_modes))
    ELSE IF ~HasAttr(h, map, "_set") THEN NoAttribute(h, map, "_set")
    ELSE IF ~PyEq(GetAttr(h, map, "_set"), GetAttr(h, self, "_set"))
    THEN SetMismatch(h, <<"Invalid data set for map ">>, map,
                     GetAttr(h, self, "_set"))
    ELSE LET arg == copy(h, self)
             h1 == SetAttr(arg.heap, arg.ref, "_map", map)
             h2 == SetAttr(h1, arg.ref, "_access", access)
         IN  Ok(h2, arg.ref)

\* the pairs that zip(maps, self._sets) yields
ZipLen(maps, sets) ==
    IF Len(maps.items) < Len(sets.items) THEN Len(maps.items)
    ELSE Len(sets.items)

Mat_call(h, self, maps, access) ==
    LET sets == GetAttr(h, self, "_sets")
        failing == {k \in 1..ZipLen(maps, sets) :
                        \/ ~HasAttr(h, maps.items[k], "_set")
                        \/ ~PyEq(GetAttr(h, maps.items[k], "_set"),
                                 sets.items[k])}
        first == CHOOSE k \in failing : \A j \in failing : k <= j
    IN  IF ~AccessIn(h, access, Mat_modes)
        THEN Raise(h, "AssertionError", AccessMessage(h, Mat_modes))
        ELSE IF failing # {}
        THEN IF ~HasAttr(h, maps.items[first], "_set")
             THEN NoAttribute(h, maps.items[first], "_set")
             ELSE SetMismatch(h, <<"Invalid set for map ">>,
                              maps.items[first], sets.items[first])
        ELSE LET arg == copy(h, self)
                 h1 == SetAttr(arg.heap, arg.ref, "_maps", maps)
                 h2 == SetAttr(h1, arg.ref, "_access", access)
             IN  Ok(h2, arg.ref)

Global_call(h, self, access) ==
    IF ~AccessIn(h, access, Global_modes)
    THEN Raise(h, "AssertionError", AccessMessage(h, Global_modes))
    ELSE LET arg == copy(h, self)
             h1 == SetAttr(arg.heap, arg.ref, "_access", access)
         IN  Ok(h1, arg.ref)

\* 0 <= index < self._dim
InInterval(index, dim) == 0 <= Twice(index) /\ Twice(index) < Twice(dim)

\* not self._index instead of self._index is None
NotIndexed_truthy(h, self) == ~Truthy(GetAttr(h, self, "_index"))

\* self._index is None
NotIndexed(h, self) == GetAttr(h, self, "_index") = None

Map_indexed(h, self, index) ==
    IF ~NotIndexed(h, self)
    THEN Raise(h, "AssertionError", <<"Map has already been indexed">>)
    ELSE IF ~InInterval(index, GetAttr(h, self, "_dim"))
    THEN Raise(h, "AssertionError",
               <<"Index must be in interval [0,">>
               \o StrOfInt(PyInt(GetAttr(h, self, "_dim").v - 1)) \o <<"]">>)
    ELSE LET indexed == copy(h, self)
             h1 == SetAttr(indexed.heap, indexed.ref, "_index", index)
         IN  Ok(h1, indexed.ref)

Map_call(h, self, index) ==
    IF ~isinstance(h, index, "int")
    THEN Raise(h, "AssertionError", <<"Only integer indices are allowed">>)
    ELSE Map_indexed(h, self, index)

\* calling an instance of a class without __call__ (Const defines none)
NotCallable(h, self) ==
    Raise(h, "TypeError", <<"'", ClassOf(h, self), "' object is not callable">>)

(***************************************************************************)
(* The declarations of a program using the API                             *)
(***************************************************************************)
\* the names the program binds, in the order of construction after the four
\* module-level Access instances
Declarations ==
    [s1 |-> Ref(5), s2 |-> Ref(6), m1 |-> Ref(7), m2 |-> Ref(8),
     d1 |-> Ref(9), d2 |-> Ref(10), mat |-> Ref(11), g |-> Ref(12),
     c |-> Ref(13)]

\* the heap after the import of the module and the declarations
DeclHeap ==
    LET h1  == Access_init(<<>>, PyStr(<<"READ">>)).heap
        h2  == Access_init(h1, PyStr(<<"WRITE">>)).heap
        h3  == Access_init(h2, PyStr(<<"RW">>)).heap
        h4  == Access_init(h3, PyStr(<<"INC">>)).heap
        h5  == Set_init(h4, PyInt(10), PyStr(<<"s1">>)).heap
        h6  == Set_init(h5, PyInt(20), PyStr(<<"s2">>)).heap
        h7  == Map_init(h6, Declarations.s1, Declarations.s2, PyInt(MaxDim),
                        None, PyStr(<<"m1">>)).heap
        h8  == Map_init(h7, Declarations.s2, Declarations.s1, PyInt(1), None,
                        PyStr(<<"m2">>)).heap
        h9  == Dat_init(h8, Declarations.s1, PyInt(1), PyStr(<<"double">>),
                        None, PyStr(<<"d1">>)).heap
        h10 == Dat_init(h9, Declarations.s2, PyInt(1), PyStr(<<"double">>),
                        None, PyStr(<<"d2">>)).heap
        h11 == Mat_init(h10, PyTuple(<<Declarations.s1, Declarations.s2>>),
                        PyInt(1), PyStr(<<"double">>), PyStr(<<"mat">>)).heap
        h12 == Global_init(h11, PyStr(<<"g">>), PyInt(0)).heap
        h13 == Const_init(h12, PyInt(1), PyStr(<<"double">>), PyInt(3),
                          PyStr(<<"c">>)).heap
    IN  h13

\* the last object declared
NDecl == Declarations.c.id

\* the objects the declarations made, before any binding or indexing
Base == 1..NDecl

Objs(cls) == {Ref(i) : i \in {j \in 1..Len(heap) : heap[j].cls = cls}}

(***************************************************************************)
(* Inputs                                                                  *)
(***************************************************************************)
ModeArgs == {PyStr(<<"READ">>), PyStr(<<"WRITE">>), PyStr(<<"RW">>),
             PyStr(<<"INC">>), PyStr(<<"MIN">>)}

\* what is passed as an access: any Access instance
AccessArgs == Objs("Access")

\* the accesses tried on Dat and Mat, whose four modes are treated alike: two
\* of the module-level instances and every Access constructed since
BindAccessArgs == {READ, INC} \cup (Objs("Access") \ {READ, WRITE, RW, INC})

\* what is passed as a map: a Map, or another carrier
MapArgs == Objs("Map") \cup Objs("Dat")

\* what is passed as the maps of a Mat: tuples of zero, one and two of the
\* declared maps and carriers, in the order (row, col) and swapped
MapsArgs ==
    LET D == Declarations
    IN  {PyTuple(<<>>), PyTuple(<<D.m1>>), PyTuple(<<D.d1>>),
         PyTuple(<<D.m1, D.m2>>), PyTuple(<<D.m2, D.m1>>),
         PyTuple(<<D.d1, D.d2>>), PyTuple(<<D.d2, D.d1>>)}

\* integers around [0, MaxDim) and floats inside and outside of it
IndexArgs ==
    {PyInt(i) : i \in -1..MaxDim}
    \cup {PyFloat(x) : x \in {1, 2 * MaxDim + 1}}

\* the objects whose rendering is asked for: the maps and the carriers
RenderArgs == Objs("Map") \cup Objs("Dat") \cup Objs("Mat") \cup Objs("Global")

\* the sequence 1, 2, ..., n
IntSeq(n) == [k \in 1..n |-> PyInt(k)]

\* as_tuple's item: None, scalars, iterables of 0 .. MaxLen + 1 items
ItemArgs ==
    {None, PyInt(5), Declarations.s1,
     PyTuple(<<Declarations.s1, Declarations.s2>>)}
    \cup {PyTuple(IntSeq(n)) : n \in 0..(MaxLen + 1)}
    \cup {PyList(IntSeq(n)) : n \in 0..(MaxLen + 1)}

TypeArgs == {None, PyType("int"), PyType("Set")}

LengthArgs == {None} \cup {PyInt(n) : n \in 0..(MaxLen + 1)}

(***************************************************************************)
(* Actions                                                                 *)
(***************************************************************************)
NoOp == [op |-> "", self |-> None, args |-> <<>>, exc |-> "", msg |-> <<>>,
         ret |-> None]

Init ==
    /\ heap = DeclHeap
    /\ last = NoOp

\* the operation op(self, args) ended with outcome r; at most cap objects
\* are allocated on top of the declarations
Finish(cap, op, self, args, r) ==
    /\ Len(r.heap) <= NDecl + cap
    /\ heap' = r.heap
    /\ last' = [op |-> op, self |-> self, args |-> args, exc |-> r.exc,
                msg |-> r.msg, ret |-> r.ret]

AccessNew ==
    \E mode \in ModeArgs :
        Finish(MaxNew, "Access", None, <<mode>>, Access_init(heap, mode))

DatBind ==
    \E self \in Objs("Dat"), map \in MapArgs, access \in BindAccessArgs :
        Finish(MaxNew, "Dat.__call__", self, <<map, access>>,
               Dat_call(heap, self, map, access))

MatBind ==
    \E self \in Objs("Mat"), maps \in MapsArgs, access \in BindAccessArgs :
        Finish(MaxNew, "Mat.__call__", self, <<maps, access>>,
               Mat_call(heap, self, maps, access))

GlobalBind ==
    \E self \in Objs("Global"), access \in AccessArgs :
        Finish(MaxNew, "Global.__call__", self, <<access>>,
               Global_call(heap, self, access))

ConstBind ==
    \E self \in Objs("Const"), access \in BindAccessArgs :
        Finish(MaxNew, "Const.__call__", self, <<access>>,
               NotCallable(heap, self))

MapCall(cap) ==
    \E self \in Objs("Map"), index \in IndexArgs :
        Finish(cap, "Map.__call__", self, <<index>>,
               Map_call(heap, self, index))

MapIndexed(cap) ==
    \E self \in Objs("Map"), index \in IndexArgs :
        Finish(cap, "Map.indexed", self, <<index>>,
               Map_indexed(heap, self, index))

Str ==
    \E self \in RenderArgs :
        Finish(MaxNew, "str", self, <<>>,
               IF ClassOf(heap, self) = "Mat" /\ Mat_str_raises(heap, self)
               THEN Raise(heap, "IndexError", <<"tuple index out of range">>)
               ELSE Ok(heap, PyStr(str(heap, self))))

Repr ==
    \E self \in RenderArgs :
        Finish(MaxNew, "repr", self, <<>>, Ok(heap, PyStr(repr(heap, self))))

AsTuple ==
    \E item \in ItemArgs, type \in TypeArgs, length \in LengthArgs :
        Finish(MaxNew, "as_tuple", None, <<item, type, length>>,
               as_tuple(heap, item, type, length))

\* every operation of the data model
Next ==
    \/ AccessNew
    \/ DatBind
    \/ MatBind
    \/ GlobalBind
    \/ ConstBind
    \/ MapCall(MaxNew)
    \/ MapIndexed(MaxNew)
    \/ Str
    \/ Repr

Spec == Init /\ [][Next]_vars

\* the operations of Map alone, with longer chains of indexing
NextMap ==
    \/ MapCall(MaxChain)
    \/ MapIndexed(MaxChain)
    \/ Str
    \/ Repr

SpecMap == Init /\ [][NextMap]_vars

\* the helper alone
NextTuple == AsTuple

SpecTuple == Init /\ [][NextTuple]_vars

(***************************************************************************)
(* Properties                                                              *)
(***************************************************************************)
Canonical == {READ, WRITE, RW, INC}

\* the text contains the fragment f immediately followed by the text g
Mentions(text, f, g) ==
    \E k \in 1..Len(text) :
        /\ text[k] = f
        /\ k + Len(g) <= Len(text)
        /\ SubSeq(text, k + 1, k + Len(g)) = g

\* v is a Map whose from-Set is set
IsMapFrom(v, set) ==
    /\ ClassOf(heap, v) = "Map"
    /\ GetAttr(heap, v, "_from") = set

\* the last operation returned a new object, distinct from its receiver
ReturnedCopy ==
    /\ last.exc = ""
    /\ IsRef(last.ret)
    /\ last.ret # last.self

\* the last operation failed on the set comparison, naming map and sets
SetMismatchError(map, set) ==
    /\ last.exc = "AssertionError"
    /\ \/ Mentions(last.msg, "Invalid data set for map ",
                   str(heap, GetAttr(heap, map, "_name")))
       \/ Mentions(last.msg, "Invalid set for map ",
                   str(heap, GetAttr(heap, map, "_name")))
    /\ Mentions(last.msg, ", should be ", str(heap, GetAttr(heap, set, "_name")))

\* the last operation failed on the access check
InvalidAccessError ==
    /\ last.exc = "AssertionError"
    /\ last.msg # <<>>
    /\ last.msg[1] = "Acess descriptor must be one of "
    /\ last.ret = None

\* a declared Dat, called with a Map from its Set and one of the four modes
C1_Case ==
    /\ last.op = "Dat.__call__"
    /\ last.self.id \in Base
    /\ IsMapFrom(last.args[1], GetAttr(heap, last.self, "_set"))
    /\ last.args[2] \in Canonical

\* C1: for a Dat d declared on Set S, a Map m from S and any of the four
\* access modes, d(m, access) succeeds and returns an object distinct from d
\* with map = m and access = access, while d's own map and access stay None
C1_DatBindSucceeds ==
    C1_Case =>
        /\ ReturnedCopy
        /\ GetAttr(heap, last.ret, "_map") = last.args[1]
        /\ GetAttr(heap, last.ret, "_access") = last.args[2]
        /\ GetAttr(heap, last.self, "_map") = None
        /\ GetAttr(heap, last.self, "_access") = None

\* a declared Dat, called with a Map from another Set and one of the modes
C2_Case ==
    /\ last.op = "Dat.__call__"
    /\ last.self.id \in Base
    /\ ClassOf(heap, last.args[1]) = "Map"
    /\ GetAttr(heap, last.args[1], "_from") # GetAttr(heap, last.self, "_set")
    /\ last.args[2] \in Canonical

\* C2: for a Dat d declared on Set S and a Map m whose from-Set is not S,
\* d(m, access) fails for every access mode with the set-mismatch error that
\* names the map and the expected and actual sets, and returns no copy
C2_DatBindMismatch ==
    C2_Case =>
        /\ SetMismatchError(last.args[1], GetAttr(heap, last.self, "_set"))
        /\ last.ret = None

\* maps is a pair of Maps whose from-Sets are the row and the col set
MatchingPair(maps, sets) ==
    /\ Len(maps.items) = 2
    /\ IsMapFrom(maps.items[1], sets.items[1])
    /\ IsMapFrom(maps.items[2], sets.items[2])

\* C3: binding a Mat on (row-set, col-set) with an allowed access succeeds
\* when the maps are a pair (map_row, map_col) from the row-set and the
\* col-set, fails when either map mismatches its set, and is never accepted
\* unless both maps were checked against their sets
C3_MatBindPair ==
    (/\ last.op = "Mat.__call__"
     /\ last.args[2] \in Canonical)
    => (last.exc = "" <=>
            MatchingPair(last.args[1], GetAttr(heap, last.self, "_sets")))

\* C4: g(READ) and g(INC) succeed and return a copy with that access and no
\* map; g(WRITE) and g(RW) fail with the invalid-access error; a Const always
\* has access READ and cannot be called
C4_GlobalModes ==
    /\ (last.op = "Global.__call__" /\ last.args[1] \in {READ, INC}) =>
            /\ ReturnedCopy
            /\ ClassOf(heap, last.ret) = "Global"
            /\ GetAttr(heap, last.ret, "_access") = last.args[1]
            /\ ~HasAttr(heap, last.ret, "_map")
    /\ (last.op = "Global.__call__" /\ last.args[1] \in {WRITE, RW}) =>
            InvalidAccessError
    /\ \A c \in Objs("Const") : GetAttr(heap, c, "_access") = READ
    /\ last.op = "Const.__call__" => (last.exc = "TypeError" /\ last.ret = None)

\* a Global was bound to INC
C4_Witness ==
    /\ last.op = "Global.__call__"
    /\ last.args[1] = INC
    /\ ReturnedCopy
    /\ GetAttr(heap, last.ret, "_access") = INC

\* C5: on an unindexed Map of arity dim, indexed(i) with an integer i succeeds
\* with index = i exactly when 0 <= i < dim; every indexing of the result of a
\* successful indexed call fails, also when the selected index was 0
C5_IndexedOnce ==
    /\ (/\ last.op \in {"Map.indexed", "Map.__call__"}
        /\ last.self.id \in Base
        /\ isinstance(heap, last.args[1], "int")) =>
            /\ last.exc = "" <=>
                (0 <= last.args[1].v
                 /\ last.args[1].v < GetAttr(heap, last.self, "_dim").v)
            /\ last.exc = "" =>
                (ReturnedCopy
                 /\ GetAttr(heap, last.ret, "_index") = last.args[1])
            /\ last.exc # "" => last.ret = None
    /\ (/\ last.op \in {"Map.indexed", "Map.__call__"}
        /\ last.self.id \notin Base) =>
            /\ last.exc = "AssertionError"
            /\ last.ret = None

\* the copy with component 0 selected was indexed again, with a valid index
C5_Witness ==
    /\ last.op = "Map.indexed"
    /\ last.self.id \notin Base
    /\ GetAttr(heap, last.self, "_index") = PyInt(0)
    /\ last.args[1] = PyInt(0)
    /\ last.exc = "AssertionError"

\* C6: copy-on-bind: no binding or indexing operation, successful or failed,
\* changes an existing object: the declared Dat, Mat, Global and Map keep
\* map(s) = None, access = None, index = None, and an earlier copy keeps its
\* map, access or index
C6_CopyOnBind ==
    [][/\ \A i \in 1..Len(heap) : i <= Len(heap') /\ heap'[i] = heap[i]
       /\ \A i \in Base : heap'[i] = DeclHeap[i]]_vars

\* an operation was applied to an earlier copy and failed
C6_Witness ==
    /\ last.self # None
    /\ last.self.id \notin Base
    /\ last.op \in {"Dat.__call__", "Mat.__call__", "Global.__call__",
                    "Map.indexed", "Map.__call__"}
    /\ last.exc # ""

\* C7: as_tuple(item, length=n) with n >= 0 returns a sequence of exactly n
\* elements or fails
C7_LengthEnforced ==
    (/\ last.op = "as_tuple"
     /\ last.args[3] # None
     /\ last.args[3].v >= 0)
    => (last.exc # "" \/ Len(last.ret.items) = last.args[3].v)

\* C8: indexing a Map with a non-integer index fails and produces no indexed
\* Map, through map(i) and through indexed(i)
C8_NonIntegerIndex ==
    (/\ last.op \in {"Map.indexed", "Map.__call__"}
     /\ ~isinstance(heap, last.args[1], "int"))
    => (last.exc # "" /\ last.ret = None)

\* the rendering of a Map shows exactly the component that is selected
MapRendering(text, self) ==
    LET index == GetAttr(heap, self, "_index")
        opening == IF last.op = "str" THEN " and component " ELSE "("
    IN  IF index = None
        THEN \A k \in 1..Len(text) : text[k] # opening
        ELSE Mentions(text, opening, str(heap, index))

\* the rendering of a Dat mentions map and access exactly when it is bound
DatRendering(text, self) ==
    LET map == GetAttr(heap, self, "_map")
        access == GetAttr(heap, self, "_access")
    IN  IF map = None
        THEN \A k \in 1..Len(text) : text[k] \notin {" associated with (", "("}
        ELSE IF last.op = "str"
        THEN /\ Mentions(text, " associated with (", str(heap, map))
             /\ Mentions(text, ") in mode ", str(heap, access))
        ELSE /\ Mentions(text, "(", repr(heap, map))
             /\ Mentions(text, ", ", repr(heap, access))

\* C9: the rendering reflects the fields: an indexed Map shows its component
\* (also component 0), an unindexed Map shows none; a bound Dat mentions its
\* map and access, an unbound Dat does not
C9_RenderingAccurate ==
    (last.op \in {"str", "repr"} /\ last.exc = "") =>
        /\ ClassOf(heap, last.self) = "Map" =>
                MapRendering(last.ret.frags, last.self)
        /\ ClassOf(heap, last.self) = "Dat" =>
                DatRendering(last.ret.frags, last.self)

\* C10: Access(m) is constructed exactly for the four mode strings; binding
\* accepts only the four canonical instances, another Access with an allowed
\* mode string is rejected by Dat, Mat and Global
C10_AccessByIdentity ==
    /\ last.op = "Access" =>
            (last.exc = "" <=>
                last.args[1].frags \in {<<"READ">>, <<"WRITE">>, <<"RW">>, <<"INC">>})
    /\ last.op \in {"Dat.__call__", "Mat.__call__", "Global.__call__"} =>
            LET access == last.args[Len(last.args)]
            IN  /\ last.exc = "" => access \in Canonical
                /\ access \notin Canonical => InvalidAccessError

\* a Dat was called with a new Access("READ") and rejected it
C10_Witness ==
    /\ last.op = "Dat.__call__"
    /\ last.args[2] \notin Canonical
    /\ GetAttr(heap, last.args[2], "_mode") = PyStr(<<"READ">>)
    /\ InvalidAccessError

====
